---- MODULE Spec2Model ----
(***************************************************************************)
(* A model of netai/timetravel_dreamai/utils/compare_results.py: the       *)
(* ground-truth parser, the prediction extractor and the metrics engine.   *)
(*                                                                         *)
(* Strings are sequences of one-character strings, so that splitting,      *)
(* trimming, pattern search and lexicographic comparison are computed      *)
(* rather than assumed.  Python floats are modelled as exact fractions     *)
(* <<numerator, denominator>>.                                             *)
(***************************************************************************)
EXTENDS Integers, Sequences, FiniteSets, TLC

VARIABLES
    \* calculate_metrics
    ground_truth,       \* dict: timestamp -> set of ids
    predictions,        \* dict: timestamp -> set of ids
    all_timestamps,     \* sorted(all_timestamps), the sequence the loop walks
    idx,                \* number of timestamps the loop has processed
    true_positives,
    false_positives,
    false_negatives,
    details,            \* the four lists
    precision,
    recall,
    f1,
    pc,                 \* "idle" | "loop" | "done" | "raised"
    key_order,          \* the order in which the set all_timestamps iterates
    returned,           \* what earlier calls with these dicts returned
    \* parse_ground_truth
    gt_text,            \* the argument
    gt_lines,           \* gt_text.strip().split('\n')
    gt_idx,             \* number of lines the loop has processed
    gt_result,          \* the dict being built (the local ground_truth)
    gt_pc,              \* "idle" | "lines" | "done" | "raised"
    \* parse_prediction_json
    content,            \* the stripped content of the chunk in hand
    json_str,           \* the candidate taken from it
    pred_result,        \* the dict being built (the local predictions)
    reported,           \* number of JSON errors printed
    pred_pc             \* "idle" | "next" | "extract" | "decode" | "done"
                        \* | "raised"

metricVars == <<ground_truth, predictions, all_timestamps, idx, true_positives,
                false_positives, false_negatives, details, precision, recall,
                f1, pc, key_order, returned>>

callVars == <<key_order, returned>>

gtVars == <<gt_text, gt_lines, gt_idx, gt_result, gt_pc>>

predVars == <<content, json_str, pred_result, reported, pred_pc>>

parseVars == <<gtVars, predVars>>

vars == <<metricVars, parseVars>>

----------------------------------------------------------------------------
(* Bounds *)

\* Object ids are drawn from 1..MaxId.
MaxId == 2

Ids == 1..MaxId

\* The longest ground-truth text.
MaxTextLen == 8

\* The most elements in the JSON array of one chunk.
MaxItems == 2

\* The most JSON errors one call prints.
MaxReports == 1

\* The most calls of calculate_metrics with the same two dicts.
MaxCalls == 2

\* The timestamps the inputs of calculate_metrics are drawn from:
\* "0", "00" and "1" (one is a proper prefix of another).
MetricTimestamps == { <<"0">>, <<"0", "0">>, <<"1">> }

----------------------------------------------------------------------------
(* Strings *)

\* The code point order of the characters used (Python compares str by
\* code point).
Ord(c) ==
    CASE c = "\n" -> 10
      [] c = " "  -> 32
      [] c = ","  -> 44
      [] c = "0"  -> 48
      [] c = "1"  -> 49
      [] c = "2"  -> 50
      [] c = "["  -> 91
      [] c = "]"  -> 93
      [] OTHER    -> 120

\* a < b for str: the first differing character decides, a proper prefix
\* is smaller.
RECURSIVE StrLess(_, _)
StrLess(a, b) ==
    IF b = <<>> THEN FALSE
    ELSE IF a = <<>> THEN TRUE
    ELSE IF Head(a) = Head(b) THEN StrLess(Tail(a), Tail(b))
    ELSE Ord(Head(a)) < Ord(Head(b))

\* sorted(S) for a set of str.
RECURSIVE SortedStrs(_)
SortedStrs(S) ==
    IF S = {} THEN <<>>
    ELSE LET m == CHOOSE x \in S : \A y \in S \ {x} : StrLess(x, y)
         IN  <<m>> \o SortedStrs(S \ {m})

\* One step of sorted(): x is placed before the first element it is less
\* than (the sort is stable and compares with < only).
RECURSIVE Insert(_, _)
Insert(x, s) ==
    IF s = <<>> THEN <<x>>
    ELSE IF StrLess(x, Head(s)) THEN <<x>> \o s
    ELSE <<Head(s)>> \o Insert(x, Tail(s))

\* Sorted handing back its argument as it came.
Unsorted(seq) == seq

\* sorted(iterable) for str elements, the iterable given in iteration order.
RECURSIVE Sorted(_)
Sorted(seq) ==
    IF seq = <<>> THEN <<>>
    ELSE Insert(seq[Len(seq)], Sorted(SubSeq(seq, 1, Len(seq) - 1)))

\* sorted(S) for a set of int.
RECURSIVE SortedInts(_)
SortedInts(S) ==
    IF S = {} THEN <<>>
    ELSE LET m == CHOOSE x \in S : \A y \in S : x <= y
         IN  <<m>> \o SortedInts(S \ {m})

----------------------------------------------------------------------------
(* str methods *)

\* str.isspace for one character.
IsSpace(c) == c \in {" ", "\n"}

IsDigit(c) == c \in {"0", "1", "2", "3", "4", "5", "6", "7", "8", "9"}

DigitValue(c) ==
    CASE c = "0" -> 0 [] c = "1" -> 1 [] c = "2" -> 2 [] c = "3" -> 3
      [] c = "4" -> 4 [] c = "5" -> 5 [] c = "6" -> 6 [] c = "7" -> 7
      [] c = "8" -> 8 [] c = "9" -> 9

\* str.lstrip()
RECURSIVE LStrip(_)
LStrip(s) ==
    IF s # <<>> /\ IsSpace(Head(s)) THEN LStrip(Tail(s)) ELSE s

\* str.rstrip()
RECURSIVE RStrip(_)
RStrip(s) ==
    IF s # <<>> /\ IsSpace(s[Len(s)])
    THEN RStrip(SubSeq(s, 1, Len(s) - 1))
    ELSE s

\* str.strip()
Strip(s) == RStrip(LStrip(s))

\* str.split(sep) for a one-character separator: n separators give n + 1
\* pieces, empty pieces included.
RECURSIVE Split(_, _)
Split(s, sep) ==
    IF \A i \in DOMAIN s : s[i] # sep THEN <<s>>
    ELSE LET i == CHOOSE j \in DOMAIN s :
                      s[j] = sep /\ \A k \in 1..(j - 1) : s[k] # sep
         IN  <<SubSeq(s, 1, i - 1)>> \o Split(SubSeq(s, i + 1, Len(s)), sep)

\* The length of the longest prefix of s without whitespace.
RECURSIVE WordLen(_)
WordLen(s) ==
    IF s = <<>> \/ IsSpace(Head(s)) THEN 0 ELSE 1 + WordLen(Tail(s))

\* str.split(): the maximal runs of non-whitespace.
RECURSIVE SplitWhitespace(_)
SplitWhitespace(s) ==
    LET t == LStrip(s)
        n == WordLen(t)
    IN  IF t = <<>> THEN <<>>
        ELSE <<SubSeq(t, 1, n)>> \o SplitWhitespace(SubSeq(t, n + 1, Len(t)))

\* Whether int(s) succeeds, for s without whitespace, sign or underscore.
IsIntLiteral(s) == s # <<>> /\ \A i \in DOMAIN s : IsDigit(s[i])

\* int(s) for a string of digits.
RECURSIVE IntOf(_)
IntOf(s) ==
    IF s = <<>> THEN 0
    ELSE 10 * IntOf(SubSeq(s, 1, Len(s) - 1)) + DigitValue(s[Len(s)])

\* Store that merges the new value into the one already there.
StoreMerging(d, k, v) ==
    [ x \in DOMAIN d \cup {k} |->
        IF x = k THEN (IF k \in DOMAIN d THEN d[k] \cup v ELSE v) ELSE d[x] ]

\* d[k] = v
Store(d, k, v) == [ x \in DOMAIN d \cup {k} |-> IF x = k THEN v ELSE d[x] ]

EmptyDict == <<>>

----------------------------------------------------------------------------
(* parse_ground_truth *)

\* The characters of a ground-truth text.
TextChars == {"\n", " ", ",", "1"}

Texts == UNION { [1..n -> TextChars] : n \in 0..MaxTextLen }

GtIdle ==
    /\ gt_text = <<>>
    /\ gt_lines = <<>>
    /\ gt_idx = 0
    /\ gt_result = EmptyDict
    /\ gt_pc = "idle"

\* The state when the loop over the lines is entered.
InitGroundTruth ==
    /\ gt_text \in Texts
    /\ gt_lines = Split(Strip(gt_text), "\n")
    /\ gt_idx = 0
    /\ gt_result = EmptyDict
    /\ gt_pc = "lines"

\* The line of the next iteration.
Line == gt_lines[gt_idx + 1]

InLines == gt_pc = "lines" /\ gt_idx < Len(gt_lines)

\* parts = line.strip().split()
Parts(line) == SplitWhitespace(Strip(line))

\* The tokens x.strip() of parts[1].split(',').
IdTokens(parts) ==
    LET toks == Split(parts[2], ",")
    IN  [ i \in DOMAIN toks |-> Strip(toks[i]) ]

\* if not line.strip(): continue
GtBlankLine ==
    /\ InLines
    /\ Strip(Line) = <<>>
    /\ gt_idx' = gt_idx + 1
    /\ UNCHANGED <<gt_text, gt_lines, gt_result, gt_pc, metricVars, predVars>>

\* len(parts) < 2: the line stores nothing
GtShortLine ==
    /\ InLines
    /\ Strip(Line) # <<>>
    /\ Len(Parts(Line)) < 2
    /\ gt_idx' = gt_idx + 1
    /\ UNCHANGED <<gt_text, gt_lines, gt_result, gt_pc, metricVars, predVars>>

\* ground_truth[timestamp] = set(int(x.strip()) for x in ...)
GtStoreLine ==
    /\ InLines
    /\ Strip(Line) # <<>>
    /\ LET parts == Parts(Line)
       IN  /\ Len(parts) >= 2
           /\ LET toks == IdTokens(parts)
              IN  /\ \A i \in DOMAIN toks : IsIntLiteral(toks[i])
                  /\ gt_result' = Store(gt_result, parts[1],
                                        { IntOf(toks[i]) : i \in DOMAIN toks })
    /\ gt_idx' = gt_idx + 1
    /\ UNCHANGED <<gt_text, gt_lines, gt_pc, metricVars, predVars>>

\* int() raises ValueError on a token that is no integer literal; nothing
\* catches it, so parse_ground_truth ends there.
GtValueError ==
    /\ InLines
    /\ Strip(Line) # <<>>
    /\ LET parts == Parts(Line)
       IN  /\ Len(parts) >= 2
           /\ \E i \in DOMAIN IdTokens(parts) :
                  ~IsIntLiteral(IdTokens(parts)[i])
    /\ gt_pc' = "raised"
    /\ UNCHANGED <<gt_text, gt_lines, gt_idx, gt_result, metricVars, predVars>>

\* return ground_truth
GtReturn ==
    /\ gt_pc = "lines"
    /\ gt_idx = Len(gt_lines)
    /\ gt_pc' = "done"
    /\ UNCHANGED <<gt_text, gt_lines, gt_idx, gt_result, metricVars, predVars>>

NextGroundTruth ==
    GtBlankLine \/ GtShortLine \/ GtStoreLine \/ GtValueError \/ GtReturn

----------------------------------------------------------------------------
(* re.search(r'```json\s*(\[.*?\])\s*```', content, re.DOTALL) *)

\* The backquote character (a string literal cannot hold it).
Backtick == "backquote"

\* Whether the characters of lit stand in s from position i on.
HasAt(s, i, lit) ==
    /\ i >= 1
    /\ i + Len(lit) - 1 <= Len(s)
    /\ SubSeq(s, i, i + Len(lit) - 1) = lit

\* The first position from i on that holds no whitespace (\s*).
RECURSIVE SkipSpace(_, _)
SkipSpace(s, i) ==
    IF i <= Len(s) /\ IsSpace(s[i]) THEN SkipSpace(s, i + 1) ELSE i

\* The opening of the pattern without the language tag.
FenceOpenNoTag == <<Backtick, Backtick, Backtick>>

FenceOpen == <<Backtick, Backtick, Backtick, "j", "s", "o", "n">>

FenceClose == <<Backtick, Backtick, Backtick>>

\* The positions k of a "]" that can end group 1 when the "[" stands at j:
\* \s*``` follows it.
GroupEnds(s, j) ==
    { k \in (j + 1)..Len(s) :
        s[k] = "]" /\ HasAt(s, SkipSpace(s, k + 1), FenceClose) }

\* The end of group 1 for a match starting at i, or 0 when the pattern does
\* not match there.  .*? takes the nearest "]" that lets the rest match.
FenceMatchEnd(s, i) ==
    IF ~HasAt(s, i, FenceOpen) THEN 0
    ELSE LET j == SkipSpace(s, i + Len(FenceOpen))
         IN  IF j > Len(s) \/ s[j] # "[" \/ GroupEnds(s, j) = {} THEN 0
             ELSE CHOOSE k \in GroupEnds(s, j) :
                      \A m \in GroupEnds(s, j) : k <= m

\* The positions where the pattern matches.
FenceStarts(s) == { i \in DOMAIN s : FenceMatchEnd(s, i) # 0 }

\* json_match: whether re.search finds the pattern.
FenceFound(s) == FenceStarts(s) # {}

\* json_match.group(1) of the leftmost match.
FenceGroup(s) ==
    LET i == CHOOSE a \in FenceStarts(s) : \A b \in FenceStarts(s) : a <= b
        j == SkipSpace(s, i + Len(FenceOpen))
    IN  SubSeq(s, j, FenceMatchEnd(s, i))

\* content.startswith('[') and content.endswith(']')
IsBareArray(s) == s # <<>> /\ s[1] = "[" /\ s[Len(s)] = "]"

\* Whether the chunk yields a candidate json_str (no continue).
HasCandidate(text) == FenceFound(text) \/ IsBareArray(text)

\* json_str: the fenced group first, the whole content otherwise.
Candidate(text) ==
    IF FenceFound(text) THEN FenceGroup(text) ELSE text

----------------------------------------------------------------------------
(* json.loads *)

\* Python values: None, int, str, list and dict (a sequence of pairs with
\* distinct keys, in insertion order).
VNull == [t |-> "null", n |-> 0, s |-> <<>>, kids |-> <<>>]

VInt(n) == [t |-> "int", n |-> n, s |-> <<>>, kids |-> <<>>]

VStr(s) == [t |-> "str", n |-> 0, s |-> s, kids |-> <<>>]

VList(kids) == [t |-> "list", n |-> 0, s |-> <<>>, kids |-> kids]

VDict(pairs) == [t |-> "dict", n |-> 0, s |-> <<>>, kids |-> pairs]

VPair(key, value) == [t |-> "pair", n |-> 0, s |-> key, kids |-> <<value>>]

\* A scan that raises JSONDecodeError.
ScanFail == [ok |-> FALSE, v |-> VNull, i |-> 0]

ScanOk(v, i) == [ok |-> TRUE, v |-> v, i |-> i]

IsJsonSpace(c) == c \in {" ", "\n"}

\* The first position from i on that holds no JSON whitespace.
RECURSIVE SkipJsonSpace(_, _)
SkipJsonSpace(s, i) ==
    IF i <= Len(s) /\ IsJsonSpace(s[i]) THEN SkipJsonSpace(s, i + 1) ELSE i

\* dict[key] = value on the sequence of pairs.
DictPut(pairs, key, value) ==
    IF \E i \in DOMAIN pairs : pairs[i].s = key
    THEN [ i \in DOMAIN pairs |->
             IF pairs[i].s = key THEN VPair(key, value) ELSE pairs[i] ]
    ELSE Append(pairs, VPair(key, value))

\* A string whose opening quote stands at i: it runs to the next quote and
\* may hold no control character.
ScanString(s, i) ==
    LET closing == { j \in (i + 1)..Len(s) : s[j] = "\"" }
    IN  IF closing = {} THEN ScanFail
        ELSE LET j == CHOOSE a \in closing : \A b \in closing : a <= b
                 body == SubSeq(s, i + 1, j - 1)
             IN  IF \E k \in DOMAIN body : body[k] = "\n" THEN ScanFail
                 ELSE ScanOk(VStr(body), j + 1)

\* The length of the run of digits from i on.
RECURSIVE DigitRun(_, _)
DigitRun(s, i) ==
    IF i <= Len(s) /\ IsDigit(s[i]) THEN 1 + DigitRun(s, i + 1) ELSE 0

\* An integer literal at i: 0, or a run of digits not starting with 0.
ScanNumber(s, i) ==
    LET n == IF s[i] = "0" THEN 1 ELSE DigitRun(s, i)
    IN  ScanOk(VInt(IntOf(SubSeq(s, i, i + n - 1))), i + n)

RECURSIVE ScanOnce(_, _)
RECURSIVE ScanArrayItems(_, _, _)
RECURSIVE ScanObjectMembers(_, _, _)

\* The elements of an array from position i on (after "[" or ","): a value,
\* then "]" or ",".
ScanArrayItems(s, i, acc) ==
    LET r == ScanOnce(s, i)
        k == SkipJsonSpace(s, r.i)
    IN  IF ~r.ok \/ k > Len(s) THEN ScanFail
        ELSE IF s[k] = "]" THEN ScanOk(VList(Append(acc, r.v)), k + 1)
        ELSE IF s[k] = ","
             THEN ScanArrayItems(s, SkipJsonSpace(s, k + 1), Append(acc, r.v))
        ELSE ScanFail

\* The members of an object from position i on (after "{" or ","): a quoted
\* key, ":", a value, then "}" or ",".
ScanObjectMembers(s, i, acc) ==
    IF i > Len(s) \/ s[i] # "\"" THEN ScanFail
    ELSE LET key == ScanString(s, i)
             c == SkipJsonSpace(s, key.i)
         IN  IF ~key.ok \/ c > Len(s) \/ s[c] # ":" THEN ScanFail
             ELSE LET r == ScanOnce(s, SkipJsonSpace(s, c + 1))
                      k == SkipJsonSpace(s, r.i)
                  IN  IF ~r.ok \/ k > Len(s) THEN ScanFail
                      ELSE IF s[k] = "}"
                           THEN ScanOk(VDict(DictPut(acc, key.v.s, r.v)), k + 1)
                      ELSE IF s[k] = ","
                           THEN ScanObjectMembers(s, SkipJsonSpace(s, k + 1),
                                                  DictPut(acc, key.v.s, r.v))
                      ELSE ScanFail

\* scan_once: the value that starts at position i.
ScanOnce(s, i) ==
    IF i > Len(s) THEN ScanFail
    ELSE IF s[i] = "\"" THEN ScanString(s, i)
    ELSE IF s[i] = "{"
         THEN LET j == SkipJsonSpace(s, i + 1)
              IN  IF j <= Len(s) /\ s[j] = "}" THEN ScanOk(VDict(<<>>), j + 1)
                  ELSE ScanObjectMembers(s, j, <<>>)
    ELSE IF s[i] = "["
         THEN LET j == SkipJsonSpace(s, i + 1)
              IN  IF j <= Len(s) /\ s[j] = "]" THEN ScanOk(VList(<<>>), j + 1)
                  ELSE ScanArrayItems(s, j, <<>>)
    ELSE IF HasAt(s, i, <<"n", "u", "l", "l">>) THEN ScanOk(VNull, i + 4)
    ELSE IF IsDigit(s[i]) THEN ScanNumber(s, i)
    ELSE ScanFail

\* json.loads(s): one value between optional whitespace, nothing after it.
\* ok is FALSE where json.loads raises JSONDecodeError.
Loads(s) ==
    LET r == ScanOnce(s, SkipJsonSpace(s, 1))
    IN  IF r.ok /\ SkipJsonSpace(s, r.i) = Len(s) + 1 THEN r ELSE ScanFail

----------------------------------------------------------------------------
(* parse_prediction_json *)

\* Whether set(obj_ids) raises TypeError: obj_ids is not iterable, or one
\* of its elements is not hashable.
SetRaises(v) ==
    \/ v.t \in {"int", "null"}
    \/ /\ v.t = "list"
       /\ \E i \in DOMAIN v.kids : v.kids[i].t \in {"list", "dict"}

\* set(obj_ids): the elements of a list, the characters of a str, the keys
\* of a dict.
SetOf(v) ==
    CASE v.t = "list" -> { v.kids[i] : i \in DOMAIN v.kids }
      [] v.t = "str"  -> { VStr(<<v.s[i]>>) : i \in DOMAIN v.s }
      [] v.t = "dict" -> { VStr(v.kids[i].s) : i \in DOMAIN v.kids }

\* for timestamp, obj_ids in item.items(): predictions[timestamp] =
\* set(obj_ids).  raised tells that set() raised TypeError.
RECURSIVE StorePairs(_, _)
StorePairs(d, pairs) ==
    IF pairs = <<>> THEN [raised |-> FALSE, d |-> d]
    ELSE LET timestamp == Head(pairs).s
             obj_ids == Head(pairs).kids[1]
         IN  IF SetRaises(obj_ids) THEN [raised |-> TRUE, d |-> d]
             ELSE StorePairs(Store(d, timestamp, SetOf(obj_ids)), Tail(pairs))

\* for item in items: if isinstance(item, dict): ...
RECURSIVE StoreItems(_, _)
StoreItems(d, items) ==
    IF items = <<>> THEN [raised |-> FALSE, d |-> d]
    ELSE IF Head(items).t = "dict"
         THEN LET r == StorePairs(d, Head(items).kids)
              IN  IF r.raised THEN r ELSE StoreItems(r.d, Tail(items))
    ELSE StoreItems(d, Tail(items))

\* The array elements the chunks are built from.
\* {"1":[1]}: a mapping
ItemA == <<"{", "\"", "1", "\"", ":", "[", "1", "]", "}">>

\* {"1":[2]}: the same timestamp with another id
ItemB == <<"{", "\"", "1", "\"", ":", "[", "2", "]", "}">>

\* {"2":[1,2]}: another timestamp, two ids
ItemC == <<"{", "\"", "2", "\"", ":", "[", "1", ",", "2", "]", "}">>

\* 1: an element that is no mapping
ItemNumber == <<"1">>

\* {"1":1}: a value that is a number
ItemNumberValue == <<"{", "\"", "1", "\"", ":", "1", "}">>

\* {"2":null}: a value that is null
ItemNullValue == <<"{", "\"", "2", "\"", ":", "n", "u", "l", "l", "}">>

\* {"1":[[1]]}: a list holding a list
ItemNestedValue == <<"{", "\"", "1", "\"", ":", "[", "[", "1", "]", "]", "}">>

\* {"2":"12"}: a value that is a string
ItemStringValue == <<"{", "\"", "2", "\"", ":", "\"", "1", "2", "\"", "}">>

Items == { ItemA, ItemB, ItemC, ItemNumber, ItemNumberValue, ItemNullValue, ItemNestedValue, ItemStringValue }

\* The sequences of at most n elements.
ItemSeqs(n) == UNION { [1..k -> Items] : k \in 0..n }

\* The elements joined by ",".
RECURSIVE Join(_)
Join(seq) ==
    IF seq = <<>> THEN <<>>
    ELSE IF Len(seq) = 1 THEN seq[1]
    ELSE seq[1] \o <<",">> \o Join(Tail(seq))

\* The JSON arrays of at most MaxItems elements.
ArrayBodies == { <<"[">> \o Join(q) \o <<"]">> : q \in ItemSeqs(MaxItems) }

\* Texts that start with "[" and end with "]" and are no JSON: a trailing
\* comma, two arrays, an unquoted key, a fence inside the array.
BrokenBodies == {
    <<"[", "{", "\"", "1", "\"", ":", "[", "1", "]", "}", ",", "]">>,
    <<"[", "1", "]", " ", "[", "2", "]">>,
    <<"[", "{", "1", ":", "[", "1", "]", "}", "]">>,
    <<"[", "{", "\"", "1", "\"", ":", "[", "1", "]", " ", Backtick, Backtick, Backtick, " ", "}", "]">> }

Bodies == ArrayBodies \cup BrokenBodies

\* [{"1":[2]},{"2":[1,2]}]
TwoItemArray == <<"[">> \o ItemB \o <<",">> \o ItemC \o <<"]">>

\* The bodies every wrapper is tried on.
SampleBodies == BrokenBodies \cup { TwoItemArray, <<"[", "]">> }

\* The texts around an array: <<before, after>>.
\* the array alone
Bare == << <<>>, <<>> >>

\* the array between whitespace
BarePadded == << <<" ">>, <<"\n">> >>

\* a fenced block tagged json
FencedJson == << <<Backtick, Backtick, Backtick, "j", "s", "o", "n", "\n">>, <<"\n", Backtick, Backtick, Backtick>> >>

\* the same without line breaks
FencedJsonTight == << <<Backtick, Backtick, Backtick, "j", "s", "o", "n">>, <<Backtick, Backtick, Backtick>> >>

\* a fenced block tagged json inside prose
FencedJsonInProse == << <<"x", " ", Backtick, Backtick, Backtick, "j", "s", "o", "n", " ">>, <<" ", Backtick, Backtick, Backtick, " ", "x">> >>

\* a fenced block without a language tag
FencedNoTag == << <<Backtick, Backtick, Backtick, "\n">>, <<"\n", Backtick, Backtick, Backtick>> >>

\* a fenced block that is not closed
FencedUnclosed == << <<Backtick, Backtick, Backtick, "j", "s", "o", "n", "\n">>, <<>> >>

\* the array inside prose, no fence
InProse == << <<"x", " ">>, <<" ", "x">> >>

\* a bare array whose string holds a fenced block
FencedInArray == << <<"[", "\"", Backtick, Backtick, Backtick, "j", "s", "o", "n">>, <<Backtick, Backtick, Backtick, "\"", "]">> >>

Wrappers == { Bare,
              BarePadded,
              FencedJson,
              FencedJsonTight,
              FencedJsonInProse,
              FencedNoTag,
              FencedUnclosed,
              InProse,
              FencedInArray }

Wrap(w, body) == w[1] \o body \o w[2]

\* A chunk of commentary.
Commentary == <<"x", " ", "1", " ", "x">>

\* The content fields of the chunks.
Contents ==
    { Wrap(w, b) : w \in {Bare, FencedJson}, b \in Bodies }
        \cup { Wrap(w, b) : w \in Wrappers, b \in SampleBodies }
        \cup { Commentary, <<>> }

PredIdle ==
    /\ content = <<>>
    /\ json_str = <<>>
    /\ pred_result = EmptyDict
    /\ reported = 0
    /\ pred_pc = "idle"

\* The state when the loop over the chunks is entered.
InitPrediction ==
    /\ content = <<>>
    /\ json_str = <<>>
    /\ pred_result = EmptyDict
    /\ reported = 0
    /\ pred_pc = "next"

\* for chunk in ...: content = chunk.get('content', '').strip()
ReadChunk ==
    /\ pred_pc = "next"
    /\ \E c \in Contents : content' = Strip(c)
    /\ pred_pc' = "extract"
    /\ UNCHANGED <<json_str, pred_result, reported, gtVars, metricVars>>

\* A chunk with neither a fenced array nor a bare array: continue.
ChunkSkip ==
    /\ pred_pc = "extract"
    /\ ~HasCandidate(content)
    /\ content' = <<>>
    /\ pred_pc' = "next"
    /\ UNCHANGED <<json_str, pred_result, reported, gtVars, metricVars>>

\* A chunk with a candidate: json_str is set and the try block is entered.
ChunkCandidate ==
    /\ pred_pc = "extract"
    /\ HasCandidate(content)
    /\ json_str' = Candidate(content)
    /\ pred_pc' = "decode"
    /\ UNCHANGED <<content, pred_result, reported, gtVars, metricVars>>

\* json.loads succeeds and every set(obj_ids) too: the entries are stored.
DecodeStore ==
    /\ pred_pc = "decode"
    /\ Loads(json_str).ok
    /\ LET r == StoreItems(pred_result, Loads(json_str).v.kids)
       IN  /\ ~r.raised
           /\ pred_result' = r.d
    /\ content' = <<>>
    /\ json_str' = <<>>
    /\ pred_pc' = "next"
    /\ UNCHANGED <<reported, gtVars, metricVars>>

\* json.loads succeeds and a set(obj_ids) raises TypeError, which the
\* except clause does not catch: parse_prediction_json ends there.
DecodeTypeError ==
    /\ pred_pc = "decode"
    /\ Loads(json_str).ok
    /\ LET r == StoreItems(pred_result, Loads(json_str).v.kids)
       IN  /\ r.raised
           /\ pred_result' = r.d
    /\ pred_pc' = "raised"
    /\ UNCHANGED <<content, json_str, reported, gtVars, metricVars>>

\* DecodeError with the exception leaving the function.
DecodeErrorPropagates ==
    /\ pred_pc = "decode"
    /\ ~Loads(json_str).ok
    /\ reported < MaxReports
    /\ pred_pc' = "raised"
    /\ UNCHANGED <<content, json_str, pred_result, reported, gtVars,
                   metricVars>>

\* except json.JSONDecodeError: the error and the content are printed and
\* the loop goes on.
DecodeError ==
    /\ pred_pc = "decode"
    /\ ~Loads(json_str).ok
    /\ reported < MaxReports
    /\ reported' = reported + 1
    /\ content' = <<>>
    /\ json_str' = <<>>
    /\ pred_pc' = "next"
    /\ UNCHANGED <<pred_result, gtVars, metricVars>>

\* return predictions
PredReturn ==
    /\ pred_pc = "next"
    /\ pred_pc' = "done"
    /\ UNCHANGED <<content, json_str, pred_result, reported, gtVars,
                   metricVars>>

NextPrediction ==
    \/ ReadChunk
    \/ ChunkSkip
    \/ ChunkCandidate
    \/ DecodeStore
    \/ DecodeTypeError
    \/ DecodeError
    \/ PredReturn

----------------------------------------------------------------------------
(* Fractions: the float results of calculate_metrics *)

Zero == <<0, 1>>

\* The outcome of a / b when b = 0.
ZeroDivisionError == <<1, 0>>

IsError(q) == q[2] = 0

\* a / b for two ints (true division).
IntDiv(a, b) == IF b = 0 THEN ZeroDivisionError ELSE <<a, b>>

FracMul(p, q) == <<p[1] * q[1], p[2] * q[2]>>

FracAdd(p, q) == <<p[1] * q[2] + q[1] * p[2], p[2] * q[2]>>

FracScale(k, p) == <<k * p[1], p[2]>>

\* p / q for two fractions.
FracDiv(p, q) ==
    IF q[1] = 0 THEN ZeroDivisionError ELSE <<p[1] * q[2], p[2] * q[1]>>

FracPositive(p) == p[1] * p[2] > 0

FracEq(p, q) == p[1] * q[2] = q[1] * p[2]

FracLe(p, q) == p[1] * q[2] <= q[1] * p[2]

----------------------------------------------------------------------------
(* calculate_metrics *)

\* dict.get(key, set())
Get(d, k) == IF k \in DOMAIN d THEN d[k] ELSE {}

EmptyDetails ==
    [ correct            |-> <<>>,
      missing_timestamps |-> <<>>,
      extra_timestamps   |-> <<>>,
      incorrect_objects  |-> <<>> ]

\* The dicts calculate_metrics is called with.
Mappings == UNION { [K -> SUBSET Ids] : K \in SUBSET MetricTimestamps }

MetricsIdle ==
    /\ ground_truth = EmptyDict
    /\ predictions = EmptyDict
    /\ all_timestamps = <<>>
    /\ idx = 0
    /\ true_positives = 0
    /\ false_positives = 0
    /\ false_negatives = 0
    /\ details = EmptyDetails
    /\ precision = Zero
    /\ recall = Zero
    /\ f1 = Zero
    /\ pc = "idle"
    /\ key_order = <<>>
    /\ returned = <<>>

\* The state when the loop of the first call is entered.  The set
\* all_timestamps of the first call iterates in ascending order; CallAgain
\* lets it iterate in every order.
InitMetrics ==
    /\ ground_truth \in Mappings
    /\ predictions \in Mappings
    /\ key_order = SortedStrs(DOMAIN ground_truth \cup DOMAIN predictions)
    /\ all_timestamps = Sorted(key_order)
    /\ returned = <<>>
    /\ idx = 0
    /\ true_positives = 0
    /\ false_positives = 0
    /\ false_negatives = 0
    /\ details = EmptyDetails
    /\ precision = Zero
    /\ recall = Zero
    /\ f1 = Zero
    /\ pc = "loop"

\* The timestamp of the next iteration.
Current == all_timestamps[idx + 1]

InLoop == pc = "loop" /\ idx < Len(all_timestamps)

\* ExtraTimestamp with the elif chain broken into separate ifs: the
\* timestamp falls through to the final else as well.
ExtraTimestampFallsThrough ==
    /\ InLoop
    /\ Current \notin DOMAIN ground_truth
    /\ LET timestamp == Current
           pred_objects == Get(predictions, timestamp)
       IN  /\ details' = [details EXCEPT
                  !.extra_timestamps =
                      Append(@, [timestamp |-> timestamp,
                                 predicted |-> SortedInts(pred_objects)]),
                  !.incorrect_objects =
                      Append(@, [timestamp    |-> timestamp,
                                 ground_truth |-> <<>>,
                                 predicted    |-> SortedInts(pred_objects),
                                 correct      |-> <<>>,
                                 extra        |-> SortedInts(pred_objects),
                                 missing      |-> <<>>])]
           /\ false_positives' = false_positives + Cardinality(pred_objects)
    /\ idx' = idx + 1
    /\ UNCHANGED <<ground_truth, predictions, all_timestamps, true_positives,
                   false_negatives, precision, recall, f1, pc, parseVars, callVars>>

\* ExtraTimestamp taken whenever the ground-truth set is empty, be the
\* timestamp a key of ground_truth or not.
ExtraTimestampByEmptiness ==
    /\ InLoop
    /\ Get(ground_truth, Current) = {}
    /\ LET timestamp == Current
           pred_objects == Get(predictions, timestamp)
       IN  /\ details' = [details EXCEPT !.extra_timestamps =
                  Append(@, [timestamp |-> timestamp,
                             predicted |-> SortedInts(pred_objects)])]
           /\ false_positives' = false_positives + Cardinality(pred_objects)
    /\ idx' = idx + 1
    /\ UNCHANGED <<ground_truth, predictions, all_timestamps, true_positives,
                   false_negatives, precision, recall, f1, pc, parseVars, callVars>>

\* if timestamp not in ground_truth
ExtraTimestamp ==
    /\ InLoop
    /\ Current \notin DOMAIN ground_truth
    /\ LET timestamp == Current
           pred_objects == Get(predictions, timestamp)
       IN  /\ details' = [details EXCEPT !.extra_timestamps =
                  Append(@, [timestamp |-> timestamp,
                             predicted |-> SortedInts(pred_objects)])]
           /\ false_positives' = false_positives + Cardinality(pred_objects)
    /\ idx' = idx + 1
    /\ UNCHANGED <<ground_truth, predictions, all_timestamps, true_positives,
                   false_negatives, precision, recall, f1, pc, parseVars, callVars>>

\* MissingTimestamp recording the predicted objects instead of the
\* ground-truth objects.
MissingTimestampWrongSet ==
    /\ InLoop
    /\ Current \in DOMAIN ground_truth
    /\ Current \notin DOMAIN predictions
    /\ LET timestamp == Current
           pred_objects == Get(predictions, timestamp)
       IN  /\ details' = [details EXCEPT !.missing_timestamps =
                  Append(@, [timestamp    |-> timestamp,
                             ground_truth |-> SortedInts(pred_objects)])]
           /\ false_negatives' = false_negatives + Cardinality(pred_objects)
    /\ idx' = idx + 1
    /\ UNCHANGED <<ground_truth, predictions, all_timestamps, true_positives,
                   false_positives, precision, recall, f1, pc, parseVars, callVars>>

\* elif timestamp not in predictions
MissingTimestamp ==
    /\ InLoop
    /\ Current \in DOMAIN ground_truth
    /\ Current \notin DOMAIN predictions
    /\ LET timestamp == Current
           gt_objects == Get(ground_truth, timestamp)
       IN  /\ details' = [details EXCEPT !.missing_timestamps =
                  Append(@, [timestamp    |-> timestamp,
                             ground_truth |-> SortedInts(gt_objects)])]
           /\ false_negatives' = false_negatives + Cardinality(gt_objects)
    /\ idx' = idx + 1
    /\ UNCHANGED <<ground_truth, predictions, all_timestamps, true_positives,
                   false_positives, precision, recall, f1, pc, parseVars, callVars>>

\* BothPresent counting every predicted object as a true positive.
BothPresentCountsPredicted ==
    /\ InLoop
    /\ Current \in DOMAIN ground_truth
    /\ Current \in DOMAIN predictions
    /\ LET timestamp == Current
           gt_objects == Get(ground_truth, timestamp)
           pred_objects == Get(predictions, timestamp)
           correct_objects == gt_objects \cap pred_objects
           extra_objects == pred_objects \ gt_objects
           missing_objects == gt_objects \ pred_objects
       IN  /\ true_positives' = true_positives + Cardinality(pred_objects)
           /\ false_positives' = false_positives + Cardinality(extra_objects)
           /\ false_negatives' = false_negatives + Cardinality(missing_objects)
           /\ IF gt_objects = pred_objects
              THEN details' = [details EXCEPT !.correct =
                       Append(@, [timestamp |-> timestamp,
                                  objects   |-> SortedInts(gt_objects)])]
              ELSE details' = [details EXCEPT !.incorrect_objects =
                       Append(@, [timestamp    |-> timestamp,
                                  ground_truth |-> SortedInts(gt_objects),
                                  predicted    |-> SortedInts(pred_objects),
                                  correct      |-> SortedInts(correct_objects),
                                  extra        |-> SortedInts(extra_objects),
                                  missing      |-> SortedInts(missing_objects)])]
    /\ idx' = idx + 1
    /\ UNCHANGED <<ground_truth, predictions, all_timestamps,
                   precision, recall, f1, pc, parseVars, callVars>>

\* else: the timestamp is in both dicts
BothPresent ==
    /\ InLoop
    /\ Current \in DOMAIN ground_truth
    /\ Current \in DOMAIN predictions
    /\ LET timestamp == Current
           gt_objects == Get(ground_truth, timestamp)
           pred_objects == Get(predictions, timestamp)
           correct_objects == gt_objects \cap pred_objects
           extra_objects == pred_objects \ gt_objects
           missing_objects == gt_objects \ pred_objects
       IN  /\ true_positives' = true_positives + Cardinality(correct_objects)
           /\ false_positives' = false_positives + Cardinality(extra_objects)
           /\ false_negatives' = false_negatives + Cardinality(missing_objects)
           /\ IF gt_objects = pred_objects
              THEN details' = [details EXCEPT !.correct =
                       Append(@, [timestamp |-> timestamp,
                                  objects   |-> SortedInts(gt_objects)])]
              ELSE details' = [details EXCEPT !.incorrect_objects =
                       Append(@, [timestamp    |-> timestamp,
                                  ground_truth |-> SortedInts(gt_objects),
                                  predicted    |-> SortedInts(pred_objects),
                                  correct      |-> SortedInts(correct_objects),
                                  extra        |-> SortedInts(extra_objects),
                                  missing      |-> SortedInts(missing_objects)])]
    /\ idx' = idx + 1
    /\ UNCHANGED <<ground_truth, predictions, all_timestamps,
                   precision, recall, f1, pc, parseVars, callVars>>

\* Precision without the guard on its denominator.
PrecisionUnguarded(tp, fp) == IntDiv(tp, tp + fp)

\* precision = tp / (tp + fp) if (tp + fp) > 0 else 0
Precision(tp, fp) == IF tp + fp > 0 THEN IntDiv(tp, tp + fp) ELSE Zero

\* recall = tp / (tp + fn) if (tp + fn) > 0 else 0
Recall(tp, fn) == IF tp + fn > 0 THEN IntDiv(tp, tp + fn) ELSE Zero

\* F1 without the factor 2.
F1NoFactor(p, r) ==
    IF FracPositive(FracAdd(p, r))
    THEN FracDiv(FracMul(p, r), FracAdd(p, r))
    ELSE Zero

\* f1 = 2 * (precision * recall) / (precision + recall)
\*      if (precision + recall) > 0 else 0
F1(p, r) ==
    IF FracPositive(FracAdd(p, r))
    THEN FracDiv(FracScale(2, FracMul(p, r)), FracAdd(p, r))
    ELSE Zero

\* The three derived metrics and the return.
Finish ==
    /\ pc = "loop"
    /\ idx = Len(all_timestamps)
    /\ LET p == Precision(true_positives, false_positives)
           r == Recall(true_positives, false_negatives)
           f == IF IsError(p) \/ IsError(r) THEN ZeroDivisionError ELSE F1(p, r)
       IN  /\ precision' = p
           /\ recall' = r
           /\ f1' = f
           /\ pc' = IF IsError(p) \/ IsError(r) \/ IsError(f)
                    THEN "raised" ELSE "done"
    /\ UNCHANGED <<ground_truth, predictions, all_timestamps, idx,
                   true_positives, false_positives, false_negatives, details,
                   parseVars, callVars>>

\* The orders in which a set with the elements S can iterate.
Orders(S) ==
    { o \in [1..Cardinality(S) -> S] : \A k \in S : \E i \in DOMAIN o : o[i] = k }

\* return precision, recall, f1, details
Returned == <<precision, recall, f1, details>>

\* The caller keeps what the call returned and calls calculate_metrics
\* again with the same two dicts; this time the set all_timestamps may
\* iterate in any order.
CallAgain ==
    /\ pc = "done"
    /\ Len(returned) + 1 < MaxCalls
    /\ returned' = Append(returned, Returned)
    /\ key_order' \in Orders(DOMAIN ground_truth \cup DOMAIN predictions)
    /\ all_timestamps' = Sorted(key_order')
    /\ idx' = 0
    /\ true_positives' = 0
    /\ false_positives' = 0
    /\ false_negatives' = 0
    /\ details' = EmptyDetails
    /\ precision' = Zero
    /\ recall' = Zero
    /\ f1' = Zero
    /\ pc' = "loop"
    /\ UNCHANGED <<ground_truth, predictions, parseVars>>

\* One call of calculate_metrics.
Init == InitMetrics /\ GtIdle /\ PredIdle

Next == ExtraTimestamp \/ MissingTimestamp \/ BothPresent \/ Finish

Spec == Init /\ [][Next]_vars

\* The id sets of the dicts that are evaluated more than once.
RepeatIdSets == { 1..n : n \in 0..MaxId }

RepeatMappings == UNION { [K -> RepeatIdSets] : K \in SUBSET MetricTimestamps }

\* Repeated calls of calculate_metrics with the same two dicts.
InitRepeat ==
    /\ ground_truth \in RepeatMappings
    /\ predictions \in RepeatMappings
    /\ Init

NextRepeat == Next \/ CallAgain

SpecRepeat == InitRepeat /\ [][NextRepeat]_vars

\* One call of parse_ground_truth.
InitGT == InitGroundTruth /\ PredIdle /\ MetricsIdle

SpecGT == InitGT /\ [][NextGroundTruth]_vars

\* One call of parse_prediction_json.
InitPred == InitPrediction /\ GtIdle /\ MetricsIdle

SpecPred == InitPred /\ [][NextPrediction]_vars

\* One call of either parser.
InitParse == InitGT \/ InitPred

NextParse == NextGroundTruth \/ NextPrediction

SpecParse == InitParse /\ [][NextParse]_vars

----------------------------------------------------------------------------
(* Properties of calculate_metrics *)

Elems(s) == { s[i] : i \in DOMAIN s }

\* The timestamps of the entries of one details list, in list order.
ListedIn(list) == [ i \in DOMAIN list |-> list[i].timestamp ]

\* The timestamps of all four lists.
Listed ==
    ListedIn(details.correct) \o ListedIn(details.incorrect_objects)
        \o ListedIn(details.missing_timestamps)
        \o ListedIn(details.extra_timestamps)

Occurrences(k) == Cardinality({ i \in DOMAIN Listed : Listed[i] = k })

AllKeys == DOMAIN ground_truth \cup DOMAIN predictions

\* The timestamps the loop has processed so far.
Processed == { all_timestamps[i] : i \in 1..idx }

\* The sum of |d[k]| over the keys k in K.
RECURSIVE SumSizes(_, _)
SumSizes(d, K) ==
    IF K = {} THEN 0
    ELSE LET k == CHOOSE x \in K : TRUE
         IN  Cardinality(d[k]) + SumSizes(d, K \ {k})

\* C1: when calculate_metrics returns, every key of keys(truth) U
\* keys(prediction) appears exactly once in the four details lists taken
\* together, and the lists name no other timestamp.
C1_BucketsPartitionKeys ==
    pc = "done" =>
        /\ \A k \in AllKeys : Occurrences(k) = 1
        /\ Elems(Listed) \subseteq AllKeys

\* C1 witness: a finished evaluation with three timestamps in three
\* different lists.
C1_Witness ==
    /\ pc = "done"
    /\ Len(details.incorrect_objects) = 1
    /\ Len(details.missing_timestamps) = 1
    /\ Len(details.extra_timestamps) = 1

\* C2: after every iteration (and so at the end) true_positives +
\* false_negatives is the sum of |truth[k]| and true_positives +
\* false_positives the sum of |prediction[k]| over the timestamps processed.
C2_CountersSumToSetSizes ==
    /\ true_positives + false_negatives =
           SumSizes(ground_truth, Processed \cap DOMAIN ground_truth)
    /\ true_positives + false_positives =
           SumSizes(predictions, Processed \cap DOMAIN predictions)
    /\ pc = "done" => Processed = AllKeys

\* C2 witness: a finished evaluation in which all three counters moved.
C2_Witness ==
    /\ pc = "done"
    /\ idx >= 2
    /\ true_positives > 0
    /\ false_positives > 0
    /\ false_negatives > 0

InUnitInterval(q) == ~IsError(q) /\ FracLe(Zero, q) /\ FracLe(q, <<1, 1>>)

\* C3: calculate_metrics never divides by zero, and the precision, recall
\* and f1 it returns lie in [0,1], each being 0 when its denominator is 0.
C3_MetricsWellDefined ==
    /\ pc # "raised"
    /\ pc = "done" =>
        /\ InUnitInterval(precision)
        /\ InUnitInterval(recall)
        /\ InUnitInterval(f1)
        /\ true_positives + false_positives = 0 => FracEq(precision, Zero)
        /\ true_positives + false_negatives = 0 => FracEq(recall, Zero)
        /\ FracEq(FracAdd(precision, recall), Zero) => FracEq(f1, Zero)

\* C3 witness: both mappings empty, so every denominator is 0.
C3_Witness ==
    /\ pc = "done"
    /\ AllKeys = {}
    /\ true_positives + false_positives = 0
    /\ true_positives + false_negatives = 0

One == <<1, 1>>

\* C9: if prediction equals truth, every timestamp is an exact match, there
\* are no false positives or negatives, and precision = recall = f1 = 1
\* whenever true_positives > 0.
C9_EqualInputsAllExact ==
    (pc = "done" /\ predictions = ground_truth) =>
        /\ ListedIn(details.correct) = all_timestamps
        /\ details.incorrect_objects = <<>>
        /\ details.missing_timestamps = <<>>
        /\ details.extra_timestamps = <<>>
        /\ false_positives = 0
        /\ false_negatives = 0
        /\ true_positives > 0 =>
               /\ FracEq(precision, One)
               /\ FracEq(recall, One)
               /\ FracEq(f1, One)

\* C9 witness: equal non-empty mappings, with a true positive.
C9_Witness ==
    /\ pc = "done"
    /\ predictions = ground_truth
    /\ Cardinality(DOMAIN ground_truth) >= 2
    /\ true_positives > 0

\* C10: if prediction is empty and truth is not, precision = recall = f1 =
\* 0, every truth key is a missing timestamp carrying its truth id set, and
\* the other three lists are empty.
C10_EmptyPredictionAllMissing ==
    (pc = "done" /\ DOMAIN predictions = {} /\ DOMAIN ground_truth # {}) =>
        /\ FracEq(precision, Zero)
        /\ FracEq(recall, Zero)
        /\ FracEq(f1, Zero)
        /\ Elems(ListedIn(details.missing_timestamps)) = DOMAIN ground_truth
        /\ Len(details.missing_timestamps) = Cardinality(DOMAIN ground_truth)
        /\ \A i \in DOMAIN details.missing_timestamps :
               LET e == details.missing_timestamps[i]
               IN  /\ Elems(e.ground_truth) = ground_truth[e.timestamp]
                   /\ Len(e.ground_truth) = Cardinality(ground_truth[e.timestamp])
        /\ details.correct = <<>>
        /\ details.incorrect_objects = <<>>
        /\ details.extra_timestamps = <<>>

\* C10 witness: an empty prediction against a truth with several keys and
\* at least one id.
C10_Witness ==
    /\ pc = "done"
    /\ DOMAIN predictions = {}
    /\ Cardinality(DOMAIN ground_truth) >= 2
    /\ false_negatives > 0

----------------------------------------------------------------------------
(* Properties of parse_ground_truth *)

\* C7: parse_ground_truth never raises, whatever the text, and every value
\* of the mapping it returns is a set of integers.
C7_GroundTruthParseNeverRaises ==
    /\ gt_pc # "raised"
    /\ gt_pc = "done" =>
           \A k \in DOMAIN gt_result : \A x \in gt_result[k] : x \in Int

\* The fields of the lines processed so far.
GtParts == [ i \in 1..gt_idx |-> Parts(gt_lines[i]) ]

\* The ids written in the second field of a line.
GtIds(parts) ==
    LET toks == Split(parts[2], ",")
    IN  { IntOf(toks[n]) : n \in DOMAIN toks }

\* parse_ground_truth: after every line, each timestamp named so far holds
\* the ids of the last line naming it, and no other timestamp is stored.
GtLastWriteWins ==
    LET parts == GtParts
        naming == { i \in DOMAIN parts : Len(parts[i]) >= 2 }
        last == { i \in naming :
                    \A j \in naming : j > i => parts[j][1] # parts[i][1] }
    IN  /\ DOMAIN gt_result = { parts[i][1] : i \in naming }
        /\ \A i \in last : gt_result[parts[i][1]] = GtIds(parts[i])

----------------------------------------------------------------------------
(* Properties of parse_prediction_json *)

\* C4: parse_prediction_json never raises: an element that is no mapping
\* or a value that is no list of hashable entries is skipped.
C4_MalformedEntrySkipped == pred_pc # "raised"

\* C5: a chunk whose candidate fails JSON decoding changes no entry and
\* does not end the loop: the error is printed and the next chunk is read.
C5_DecodeFailureSkipsChunk ==
    [][ (pred_pc = "decode" /\ ~Loads(json_str).ok) =>
            /\ pred_result' = pred_result
            /\ reported' = reported + 1
            /\ pred_pc' = "next" ]_vars

\* C5 witness: a decoding error has been printed, the loop is still
\* running and entries of another chunk are in the mapping.
C5_Witness ==
    /\ pred_pc = "next"
    /\ reported > 0
    /\ pred_result # EmptyDict

\* The wrappers with a fence tagged json around the array.
TaggedFences == { FencedJson, FencedJsonTight, FencedJsonInProse }

\* The text between the stripped ends of wrapper w when the chunk in hand
\* has that form (the empty text otherwise).
Inside(w) ==
    LET before == LStrip(w[1])
        after == RStrip(w[2])
        n == Len(content)
    IN  IF /\ n >= Len(before) + Len(after)
           /\ SubSeq(content, 1, Len(before)) = before
           /\ SubSeq(content, n - Len(after) + 1, n) = after
        THEN SubSeq(content, Len(before) + 1, n - Len(after))
        ELSE <<>>

\* The chunk in hand is a JSON array inside wrapper w.
ArrayIn(w) == Inside(w) \in ArrayBodies

Extracts(b) == pred_pc' = "decode" /\ json_str' = b

ContributesNothing ==
    /\ pred_pc' = "next"
    /\ pred_result' = pred_result
    /\ reported' = reported

\* What C6 says of the extraction step, with the wrappers in Fences taken
\* as fenced blocks: a fenced array is extracted, also from inside a text
\* that is itself a bare array; a bare array is extracted whole; a chunk
\* with neither contributes nothing.
ExtractionRule(Fences) ==
    pred_pc = "extract" =>
        /\ \A w \in Fences \cup {FencedInArray, Bare, BarePadded} :
               ArrayIn(w) => Extracts(Inside(w))
        /\ \A w \in {FencedNoTag, FencedUnclosed, InProse} \ Fences :
               ArrayIn(w) => ContributesNothing
        /\ content \in {Commentary, <<>>} => ContributesNothing

\* The entries of [{"1":[2]},{"2":[1,2]}] are stored when the array comes
\* in a fenced block tagged json.
FencedScenario ==
    ( /\ pred_pc = "decode"
      /\ content = Strip(Wrap(FencedJson, TwoItemArray))
      /\ pred_pc' = "next" ) =>
        /\ DOMAIN pred_result' = DOMAIN pred_result \cup { <<"1">>, <<"2">> }
        /\ pred_result'[<<"1">>] = { VInt(2) }
        /\ pred_result'[<<"2">>] = { VInt(1), VInt(2) }
        /\ \A k \in DOMAIN pred_result \ { <<"1">>, <<"2">> } :
               pred_result'[k] = pred_result[k]

\* C6 as claimed: a fenced block yields its array with or without a
\* language tag.
C6_AnyFenceExtracted ==
    [][ ExtractionRule(TaggedFences \cup {FencedNoTag}) /\ FencedScenario ]_vars

\* C6 amended: a fenced block tagged json yields its array and is tried
\* before the bare-array fallback; a fenced block without the tag is not
\* recognised, and a chunk with neither a tagged fenced array nor a text
\* from "[" to "]" contributes nothing.
C6_TaggedFenceExtracted ==
    [][ ExtractionRule(TaggedFences) /\ FencedScenario ]_vars

\* C6 witness: the array of a tagged fenced block has been extracted.
C6_Witness ==
    /\ pred_pc = "decode"
    /\ content = Strip(Wrap(FencedJson, TwoItemArray))
    /\ json_str = TwoItemArray

\* Whether element i of items is a mapping that names timestamp ts.
ItemNames(items, i, ts) ==
    /\ items[i].t = "dict"
    /\ \E n \in DOMAIN items[i].kids : items[i].kids[n].s = ts

\* The value the last element naming ts gives it.
LastValue(items, ts) ==
    LET naming == { i \in DOMAIN items : ItemNames(items, i, ts) }
        last == CHOOSE i \in naming : \A j \in naming : j <= i
        n == CHOOSE m \in DOMAIN items[last].kids : items[last].kids[m].s = ts
    IN  items[last].kids[n].kids[1]

\* parse_prediction_json: when the elements of a chunk are stored, each
\* timestamp they name holds the set of the last element naming it, and
\* every other timestamp keeps its value.
PredLastWriteWins ==
    (pred_pc = "decode" /\ pred_pc' = "next" /\ Loads(json_str).ok) =>
        LET items == Loads(json_str).v.kids
            named == { ts \in { <<"1">>, <<"2">> } :
                         \E i \in DOMAIN items : ItemNames(items, i, ts) }
        IN  /\ DOMAIN pred_result' = DOMAIN pred_result \cup named
            /\ \A ts \in named :
                   pred_result'[ts] = SetOf(LastValue(items, ts))
            /\ \A ts \in DOMAIN pred_result \ named :
                   pred_result'[ts] = pred_result[ts]

\* C8: in both parsers the value stored for a timestamp is that of the last
\* line or element naming it, replacing any earlier value.
C8_LastWriteWins == []GtLastWriteWins /\ [][PredLastWriteWins]_vars

\* C8 witness: a parsed text in which two lines name the same timestamp
\* with different ids.
C8_Witness ==
    /\ gt_pc = "done"
    /\ \E i, j \in 1..gt_idx :
           /\ i < j
           /\ Len(GtParts[i]) >= 2
           /\ Len(GtParts[j]) >= 2
           /\ GtParts[i][1] = GtParts[j][1]
           /\ GtIds(GtParts[i]) # GtIds(GtParts[j])

----------------------------------------------------------------------------
(* Repeated evaluation *)

\* Each str of the sequence is less than the next one.
Ascending(seq) == \A i \in 1..(Len(seq) - 1) : StrLess(seq[i], seq[i + 1])

DetailsAscending ==
    /\ Ascending(ListedIn(details.correct))
    /\ Ascending(ListedIn(details.incorrect_objects))
    /\ Ascending(ListedIn(details.missing_timestamps))
    /\ Ascending(ListedIn(details.extra_timestamps))

\* What a finished call returns is what every earlier call with the same
\* dicts returned.
SameAsEarlier ==
    pc = "done" => \A i \in DOMAIN returned : returned[i] = Returned

InputsUnchanged ==
    /\ ground_truth' = ground_truth
    /\ predictions' = predictions

\* C11: calculate_metrics walks the timestamps in ascending lexicographic
\* order, so each details list is in strictly ascending timestamp order;
\* a call with equal dicts returns the same precision, recall, f1 and the
\* same details in the same order as every earlier call, in whatever
\* order the keys iterate; and no step changes either input dict.
C11_Deterministic ==
    /\ [](Ascending(all_timestamps) /\ DetailsAscending /\ SameAsEarlier)
    /\ [][InputsUnchanged]_vars

\* C11 witness: a second call has returned; its keys iterated in an order
\* that is not ascending and one details list holds three entries.
C11_Witness ==
    /\ pc = "done"
    /\ returned # <<>>
    /\ ~Ascending(key_order)
    /\ Len(details.incorrect_objects) = 3
    /\ f1 # Zero

----------------------------------------------------------------------------
(* Classification by key presence *)

Holds(list, entry) == \E i \in DOMAIN list : list[i] = entry

Names(list) == Elems(ListedIn(list))

\* The entry and the list that the presence of k in the two dicts calls
\* for, whatever the sizes of the sets.
ClassifiedByPresence(k) ==
    LET truth == Get(ground_truth, k)
        predicted == Get(predictions, k)
    IN  IF k \notin DOMAIN ground_truth
        THEN /\ Holds(details.extra_timestamps,
                      [timestamp |-> k, predicted |-> SortedInts(predicted)])
             /\ k \notin Names(details.correct)
                     \cup Names(details.incorrect_objects)
                     \cup Names(details.missing_timestamps)
        ELSE IF k \notin DOMAIN predictions
        THEN /\ Holds(details.missing_timestamps,
                      [timestamp |-> k, ground_truth |-> SortedInts(truth)])
             /\ k \notin Names(details.correct)
                     \cup Names(details.incorrect_objects)
                     \cup Names(details.extra_timestamps)
        ELSE IF truth = predicted
        THEN /\ Holds(details.correct,
                      [timestamp |-> k, objects |-> SortedInts(truth)])
             /\ k \notin Names(details.incorrect_objects)
                     \cup Names(details.missing_timestamps)
                     \cup Names(details.extra_timestamps)
        ELSE /\ Holds(details.incorrect_objects,
                      [timestamp    |-> k,
                       ground_truth |-> SortedInts(truth),
                       predicted    |-> SortedInts(predicted),
                       correct      |-> SortedInts(truth \cap predicted),
                       extra        |-> SortedInts(predicted \ truth),
                       missing      |-> SortedInts(truth \ predicted)])
             /\ k \notin Names(details.correct)
                     \cup Names(details.missing_timestamps)
                     \cup Names(details.extra_timestamps)

\* What one iteration adds to the three counters.
CountedByPresence ==
    (pc = "loop" /\ idx' = idx + 1) =>
        LET k == all_timestamps[idx + 1]
            truth == Get(ground_truth, k)
            predicted == Get(predictions, k)
            both == k \in DOMAIN ground_truth \cap DOMAIN predictions
        IN  /\ true_positives' = true_positives
                   + (IF both THEN Cardinality(truth \cap predicted) ELSE 0)
            /\ false_positives' = false_positives
                   + (IF k \in DOMAIN ground_truth /\ ~both
                      THEN 0 ELSE Cardinality(predicted \ truth))
            /\ false_negatives' = false_negatives
                   + (IF k \in DOMAIN predictions /\ ~both
                      THEN 0 ELSE Cardinality(truth \ predicted))

\* C12: the list a timestamp goes to is decided by which dicts have it
\* as a key, never by a set being empty: a key of truth only is a missing
\* timestamp and adds |truth| (0 for an empty set) to false_negatives, a
\* key of prediction only is an extra timestamp and adds |predicted| to
\* false_positives, a key of both is an exact match when the sets are
\* equal (both empty included) and otherwise a partial match with
\* correct = truth & predicted, extra = predicted - truth and
\* missing = truth - predicted.
C12_ClassifiedByKeyPresence ==
    /\ [](pc = "done" => \A k \in AllKeys : ClassifiedByPresence(k))
    /\ [][CountedByPresence]_vars

\* C12 witness: a finished evaluation in which a key of truth only, a key
\* of prediction only and a key of both all carry empty sets.
C12_Witness ==
    /\ pc = "done"
    /\ \E k \in DOMAIN ground_truth \ DOMAIN predictions :
           ground_truth[k] = {}
    /\ \E k \in DOMAIN predictions \ DOMAIN ground_truth :
           predictions[k] = {}
    /\ \E k \in DOMAIN ground_truth \cap DOMAIN predictions :
           ground_truth[k] = {} /\ predictions[k] = {}
    /\ Len(details.missing_timestamps) = 1
    /\ Len(details.extra_timestamps) = 1
    /\ Len(details.correct) = 1

====
